---- MODULE Spec2Model ----
(***************************************************************************)
(* Scientific-paper-summarizer: the text utilities                         *)
(* (src/src/utils/text_processor.py) and the staged summarization pipeline *)
(* (src/src/summarizers/scientific_summarizer.py).                         *)
(*                                                                         *)
(* A Python str is a sequence of one-character strings.  Offsets that the  *)
(* code computes (span starts and ends) are kept 0-based as in Python; a   *)
(* slice text[a:b] is SubSeq(text, a + 1, b).                              *)
(***************************************************************************)
EXTENDS Integers, Sequences, FiniteSets, TLC

VARIABLES
    \* harness of the pure text functions: the argument, the result, the step
    arg, res, stage,
    \* one summarize() run
    pc,                 \* where the run is: start, sections, overview, findings,
                        \* expand, done, failed
    raw_text,           \* summarize(text=...)
    summary_max_words,  \* summarize(summary_max_words=...); 0 stands for None
    effective_max,      \* line 109
    text,               \* the cleaned text, line 113
    sections,           \* detect_sections(text), line 117
    section_index,      \* the loop of _summarize_sections: the position in
                        \* priority_sections of the section the next call is for
    section_summaries,  \* dict built by _summarize_sections, in insertion order
    overview,           \* line 124
    key_findings,       \* line 127
    draft,              \* `full` after the join at line 437
    expanded,           \* what _expand_summary returned (or NotCalled)
    summary,            \* the returned Summary, or NoSummary
    error,              \* the exception that left summarize(), or NoError
    calls               \* the generation calls issued so far, in order

vars == <<arg, res, stage, pc, raw_text, summary_max_words, effective_max, text,
          sections, section_index, section_summaries, overview, key_findings, draft, expanded,
          summary, error, calls>>

harness_vars == <<arg, res, stage>>

run_vars == <<pc, raw_text, summary_max_words, effective_max, text, sections,
              section_index, section_summaries, overview, key_findings, draft, expanded,
              summary, error, calls>>

-----------------------------------------------------------------------------
(* Characters and the classes the regular expressions use.                 *)

Digits == {"0", "1", "2", "3", "4", "5", "6", "7", "8", "9"}

LowerLetters ==
    <<"a", "b", "c", "d", "e", "f", "g", "h", "i", "j", "k", "l", "m",
      "n", "o", "p", "q", "r", "s", "t", "u", "v", "w", "x", "y", "z">>

UpperLetters ==
    <<"A", "B", "C", "D", "E", "F", "G", "H", "I", "J", "K", "L", "M",
      "N", "O", "P", "Q", "R", "S", "T", "U", "V", "W", "X", "Y", "Z">>

Range(f) == {f[i] : i \in DOMAIN f}

Letters == Range(LowerLetters) \cup Range(UpperLetters)

\* \w
IsWordChar(c) == c \in Letters \cup Digits \cup {"_"}

\* \s, and what str.strip() and str.split() treat as whitespace
Whitespace == {" ", "\t", "\n", "\r"}

IsSpace(c) == c \in Whitespace

\* str.lower() on one character
LowerChar(c) ==
    IF c \in Range(UpperLetters)
    THEN LowerLetters[CHOOSE i \in DOMAIN UpperLetters : UpperLetters[i] = c]
    ELSE c

\* str.lower()
Lower(s) == [i \in 1..Len(s) |-> LowerChar(s[i])]

Min(S) == CHOOSE x \in S : \A y \in S : x <= y

Max(S) == CHOOSE x \in S : \A y \in S : x >= y

Indices(s) == [i \in 1..Len(s) |-> i]

\* s repeated n times
Rep(s, n) == [i \in 1..(n * Len(s)) |-> s[((i - 1) % Len(s)) + 1]]

\* sub occurs in s at (1-based) index i
OccursAt(s, sub, i) ==
    /\ i >= 1
    /\ i + Len(sub) - 1 <= Len(s)
    /\ \A j \in 1..Len(sub) : s[i + j - 1] = sub[j]

\* `sub in s`
Contains(s, sub) == \E i \in 1..(Len(s) - Len(sub) + 1) : OccursAt(s, sub, i)

\* s.startswith(sub)
StartsWith(s, sub) == OccursAt(s, sub, 1)

\* str.strip()
Strip(s) ==
    LET keep == {i \in 1..Len(s) : ~IsSpace(s[i])}
    IN  IF keep = {} THEN <<>> ELSE SubSeq(s, Min(keep), Max(keep))

-----------------------------------------------------------------------------
(* count_words and truncate_to_words, text_processor.py lines 211-221.     *)

\* a match of \b\w+\b starts here: the first character of a maximal \w run
IsWordStart(s, i) == IsWordChar(s[i]) /\ (i = 1 \/ ~IsWordChar(s[i - 1]))

\* len(re.findall(r'\b\w+\b', text))
count_words(s) == Cardinality({i \in 1..Len(s) : IsWordStart(s, i)})

\* a match of \S+ starts / ends here
IsTokenStart(s, i) == ~IsSpace(s[i]) /\ (i = 1 \/ IsSpace(s[i - 1]))

IsTokenEnd(s, i) == ~IsSpace(s[i]) /\ (i = Len(s) \/ IsSpace(s[i + 1]))

\* the start indices of re.findall(r'\S+', text), ascending
TokenStarts(s) == SelectSeq(Indices(s), LAMBDA i : IsTokenStart(s, i))

TokenEnds(s) == SelectSeq(Indices(s), LAMBDA i : IsTokenEnd(s, i))

\* ' '.join(words[:k]) for 0 <= k <= len(words)
JoinFirstTokens(s, k) ==
    IF k = 0 THEN <<>>
    ELSE LET first == TokenStarts(s)[1]
             last  == TokenEnds(s)[k]
             keep  == SelectSeq(SubSeq(Indices(s), first, last),
                                LAMBDA i : ~IsSpace(s[i]) \/ ~IsSpace(s[i - 1]))
         IN  [j \in 1..Len(keep) |->
                 IF IsSpace(s[keep[j]]) THEN " " ELSE s[keep[j]]]

Ellipsis == <<".", ".", ".">>

truncate_to_words(s, max_words) ==
    LET n == Len(TokenStarts(s))
    IN  IF n <= max_words THEN s
        ELSE \* words[:max_words]: a negative bound counts from the end
             JoinFirstTokens(s, IF max_words >= 0 THEN max_words
                                ELSE Max({0, n + max_words})) \o Ellipsis

-----------------------------------------------------------------------------
(* clean_text, text_processor.py lines 14-25.                              *)

\* the OCR ligature characters U+FB01 and U+FB02, each one character
LigFi == "<U+FB01>"

LigFl == "<U+FB02>"

\* the first index k >= i with s[k] outside `chars`, or Len(s) + 1: where a greedy run ends
RunEnd(s, i, chars) == Min({k \in i..Len(s) : s[k] \notin chars} \cup {Len(s) + 1})

\* the end of the greedy run of characters outside `stops` starting at i
RunUntil(s, i, stops) == Min({k \in i..Len(s) : s[k] \in stops} \cup {Len(s) + 1})

IsDigit(c) == c \in Digits

\* text.replace('\r\n', '\n').replace('\r', '\n'), line 17
NormalizeLineEndings(s) ==
    LET keep == SelectSeq(Indices(s),
                    LAMBDA i : ~(s[i] = "\r" /\ i < Len(s) /\ s[i + 1] = "\n"))
    IN  [j \in 1..Len(keep) |-> IF s[keep[j]] = "\r" THEN "\n" ELSE s[keep[j]]]

\* The match of \n\s*\d+\s*\n that starts at the newline at index i: the index
\* of its last character, or 0 when there is none.  Both \s* are greedy and
\* \s matches a newline, so the match runs to the last newline of the
\* whitespace that follows the digits.
PageNumberMatchEnd(s, i) ==
    LET a  == RunEnd(s, i + 1, Whitespace)
        b  == RunEnd(s, a, Digits)
        c  == RunEnd(s, b, Whitespace)
        nl == {k \in b..(c - 1) : s[k] = "\n"}
    IN  IF b = a \/ nl = {} THEN 0 ELSE Max(nl)

\* re.sub(r'\n\s*\d+\s*\n', '\n', text), line 19: leftmost matches, each
\* search resuming after the previous match
RECURSIVE RemovePageNumbersFrom(_, _)
RemovePageNumbersFrom(s, from) ==
    LET cands == {i \in from..Len(s) : s[i] = "\n" /\ PageNumberMatchEnd(s, i) # 0}
    IN  IF cands = {} THEN SubSeq(s, from, Len(s))
        ELSE LET i == Min(cands)
             IN  SubSeq(s, from, i - 1) \o <<"\n">>
                   \o RemovePageNumbersFrom(s, PageNumberMatchEnd(s, i) + 1)

RemovePageNumbers(s) == RemovePageNumbersFrom(s, 1)

\* text.replace(U+FB01, 'fi').replace(U+FB02, 'fl'), line 21
FixLigatures(s) ==
    LET IsLig(i) == s[i] \in {LigFi, LigFl}
        slots == SelectSeq(Indices(Rep(<<0>>, 2 * Len(s))),
                     LAMBDA k : k % 2 = 1 \/ IsLig(k \div 2))
    IN  [j \in 1..Len(slots) |->
            LET k == slots[j]
                i == (k + 1) \div 2
            IN  IF ~IsLig(i) THEN s[i]
                ELSE IF k % 2 = 1 THEN "f"
                ELSE IF s[i] = LigFi THEN "i" ELSE "l"]

\* re.sub(r'\n{3,}', '\n\n', text), line 23
CollapseBlankLines(s) ==
    LET keep == SelectSeq(Indices(s),
                    LAMBDA i : ~(i > 2 /\ s[i] = "\n" /\ s[i - 1] = "\n"
                                        /\ s[i - 2] = "\n"))
    IN  [j \in 1..Len(keep) |-> s[keep[j]]]

clean_text(raw) ==
    Strip(CollapseBlankLines(FixLigatures(RemovePageNumbers(
        NormalizeLineEndings(raw)))))

-----------------------------------------------------------------------------
(* detect_sections, text_processor.py lines 29-111.                        *)

\* U+2013 and U+2014, each one character
EnDash == "<U+2013>"

EmDash == "<U+2014>"

\* the canonical section names, in keyword_map's (dict) order, lines 32-40
CanonicalKeys ==
    <<"abstract", "introduction", "methods", "results", "discussion",
      "conclusion", "references">>

W_methods ==
    <<"m", "e", "t", "h", "o", "d", "s">>

W_methodology ==
    <<"m", "e", "t", "h", "o", "d", "o", "l", "o", "g", "y">>

W_results ==
    <<"r", "e", "s", "u", "l", "t", "s">>

W_discussion ==
    <<"d", "i", "s", "c", "u", "s", "s", "i", "o", "n">>

W_conclusion ==
    <<"c", "o", "n", "c", "l", "u", "s", "i", "o", "n">>

\* keyword_map: the strings each regex fragment matches (an alternation of
\* literals; an optional suffix gives two literals), lines 32-40
keyword_map(canonical) ==
    LET
        \* the words of keyword_map's regex fragments
        W_abstract ==
            <<"a", "b", "s", "t", "r", "a", "c", "t">>
        W_introduction ==
            <<"i", "n", "t", "r", "o", "d", "u", "c", "t", "i", "o", "n">>
        W_method ==
            <<"m", "e", "t", "h", "o", "d">>
        W_algorithm ==
            <<"a", "l", "g", "o", "r", "i", "t", "h", "m">>
        W_least_squares_algorithm_hyphen ==
            <<"l", "e", "a", "s", "t", "-", "s", "q", "u", "a", "r", "e", "s", " ", "a", "l", "g",
              "o", "r", "i", "t", "h", "m">>
        W_least_squares_algorithm ==
            <<"l", "e", "a", "s", "t", " ", "s", "q", "u", "a", "r", "e", "s", " ", "a", "l", "g",
              "o", "r", "i", "t", "h", "m">>
        W_result ==
            <<"r", "e", "s", "u", "l", "t">>
        W_numerical_results ==
            <<"n", "u", "m", "e", "r", "i", "c", "a", "l", " ", "r", "e", "s", "u", "l", "t", "s">>
        W_experimental_results ==
            <<"e", "x", "p", "e", "r", "i", "m", "e", "n", "t", "a", "l", " ", "r", "e", "s", "u",
              "l", "t", "s">>
        W_conclusions ==
            <<"c", "o", "n", "c", "l", "u", "s", "i", "o", "n", "s">>
        W_reference ==
            <<"r", "e", "f", "e", "r", "e", "n", "c", "e">>
        W_references ==
            <<"r", "e", "f", "e", "r", "e", "n", "c", "e", "s">>
    IN
        CASE canonical = "abstract"     -> {W_abstract}
          [] canonical = "introduction" -> {W_introduction}
          [] canonical = "methods"      ->
                {W_method, W_methods, W_methodology, W_algorithm,
                 W_least_squares_algorithm_hyphen, W_least_squares_algorithm}
          [] canonical = "results"      ->
                {W_result, W_results, W_numerical_results, W_experimental_results}
          [] canonical = "discussion"   -> {W_discussion}
          [] canonical = "conclusion"   -> {W_conclusion, W_conclusions}
          [] canonical = "references"   -> {W_reference, W_references}

\* text.split('\n'): the (1-based) index at which each line starts
LineStarts(s) ==
    LET nl == SelectSeq(Indices(s), LAMBDA i : s[i] = "\n")
    IN  <<1>> \o [j \in 1..Len(nl) |-> nl[j] + 1]

\* the k-th line of text.split('\n')
LineAt(s, k) ==
    LET st == LineStarts(s)
    IN  SubSeq(s, st[k], IF k < Len(st) THEN st[k + 1] - 2 ELSE Len(s))

\* \b holds between s[i-1] and s[i]
WordBoundary(s, i) ==
    (i > 1 /\ i - 1 <= Len(s) /\ IsWordChar(s[i - 1]))
        # (i >= 1 /\ i <= Len(s) /\ IsWordChar(s[i]))

\* (?:\b|\s|[:\-<U+2013><U+2014>]) matches at index i
HeaderTrailer(s, i) ==
    \/ WordBoundary(s, i)
    \/ i <= Len(s) /\ (IsSpace(s[i]) \/ s[i] \in {":", "-", EnDash, EmDash})

\* {pattern}(?:\b|\s|[:\-...]) matches at index i
KeywordAt(s, i, canonical) ==
    \E w \in keyword_map(canonical) :
        OccursAt(s, w, i) /\ HeaderTrailer(s, i + Len(w))

\* u matches \d+\.?\d*(?:\.\d+)* entirely: digit groups separated by single
\* dots; only the first dot may be doubled or, when it is the only one, last
NumberingOk(u) ==
    /\ Len(u) >= 1
    /\ IsDigit(u[1])
    /\ \A i \in 1..Len(u) : IsDigit(u[i]) \/ u[i] = "."
    /\ LET dots == {i \in 1..Len(u) : u[i] = "."}
       IN  \A i \in dots :
              \/ i + 1 <= Len(u) /\ IsDigit(u[i + 1])
              \/ i = Min(dots) /\ i = Len(u)
              \/ i = Min(dots) /\ i + 2 <= Len(u) /\ u[i + 1] = "."
                               /\ IsDigit(u[i + 2])

\* ^#+\s*{pattern}(?:\b|\s|[:\-...]), line 63
MarkdownHeader(s, canonical) ==
    LET a == RunEnd(s, 1, {"#"})
    IN  a > 1 /\ KeywordAt(s, RunEnd(s, a, Whitespace), canonical)

\* ^\d+\.?\d*(?:\.\d+)*\s+{pattern}(?:\b|\s|[:\-...]), line 64
NumberedHeader(s, canonical) ==
    LET w == RunUntil(s, 1, Whitespace)
        b == RunEnd(s, w, Whitespace)
    IN  NumberingOk(SubSeq(s, 1, w - 1)) /\ b > w /\ KeywordAt(s, b, canonical)

\* ^{pattern}(?:\b|\s|[:\-...]), line 65
PlainHeader(s, canonical) == KeywordAt(s, 1, canonical)

\* ^.*\b{pattern}\b.*$, line 66
CompositeHeader(s, canonical) ==
    \E w \in keyword_map(canonical) : \E i \in 1..Len(s) :
        OccursAt(s, w, i) /\ WordBoundary(s, i) /\ WordBoundary(s, i + Len(w))

\* any(re.search(p, lowered) for p in header_patterns), line 68
HeaderMatched(lowered, canonical) ==
    \/ MarkdownHeader(lowered, canonical)
    \/ NumberedHeader(lowered, canonical)
    \/ PlainHeader(lowered, canonical)
    \/ CompositeHeader(lowered, canonical)

\* len(s.split())
SplitCount(s) == Len(TokenStarts(s))

\* the line is taken as the header of `canonical`: lines 54-74
IsHeaderLine(line, canonical) ==
    LET raw     == Strip(line)
        lowered == Lower(raw)
    IN  /\ raw # <<>>
        /\ Len(raw) <= 80
        /\ HeaderMatched(lowered, canonical)
        /\ ~(lowered[Len(lowered)] = "." /\ SplitCount(lowered) > 6)

\* A detected mapping is the sequence of its items [name, start, end] in the
\* dict's insertion order.
SectionNames(secs) == {secs[i].name : i \in DOMAIN secs}

SpanOf(secs, name) ==
    LET i == CHOOSE i \in DOMAIN secs : secs[i].name = name
    IN  <<secs[i].start, secs[i].end>>

\* the mutation: a later header line of the key replaces the earlier one
LineScan_last_match(s) ==
    LET st == LineStarts(s)
        hit(c) == {k \in 1..Len(st) : IsHeaderLine(LineAt(s, k), c)}
        found == SelectSeq(CanonicalKeys, LAMBDA c : hit(c) # {})
    IN  [j \in 1..Len(found) |->
            [name  |-> found[j],
             start |-> st[Max(hit(found[j]))] - 1,
             end   |-> Len(s)]]

\* the line scan, lines 52-78: per canonical key the first header line
LineScan(s) ==
    LET st == LineStarts(s)
        hit(c) == {k \in 1..Len(st) : IsHeaderLine(LineAt(s, k), c)}
        found == SelectSeq(CanonicalKeys, LAMBDA c : hit(c) # {})
    IN  [j \in 1..Len(found) |->
            [name  |-> found[j],
             start |-> st[Min(hit(found[j]))] - 1,
             end   |-> Len(s)]]

\* the mutation: the ends are left at the end of the text
CloseSpans_unclipped(secs) == secs

\* lines 81-85 and 106-110: sorted() is stable, so equal starts keep the
\* insertion order; every item but the last of the order is clipped
CloseSpans(secs) ==
    LET before(i, j) == \/ secs[i].start < secs[j].start
                        \/ secs[i].start = secs[j].start /\ i < j
        after(i) == {j \in DOMAIN secs : before(i, j)}
        next(i)  == CHOOSE j \in after(i) : \A k \in after(i) : k = j \/ before(j, k)
    IN  [i \in DOMAIN secs |->
            IF after(i) = {} THEN secs[i]
            ELSE [secs[i] EXCEPT !.end = secs[next(i)].start]]

\* [A-Za-z0-9 \-<U+2013><U+2014>:]
IsFallbackTailChar(c) ==
    c \in Letters \cup Digits \cup {" ", "-", EnDash, EmDash, ":"}

\* the header group of the fallback regex (line 94, re.IGNORECASE) matches
\* from index h and is followed by a newline or the end of the text
FallbackHeaderAt(s, h, canonical) ==
    LET low == Lower(s)
        w   == RunUntil(s, h, Whitespace)
        b   == RunEnd(s, w, Whitespace)
        wordStarts == {h} \cup (IF NumberingOk(SubSeq(s, h, w - 1)) /\ b > w
                                THEN {b} ELSE {})
    IN  \E i \in wordStarts : \E kw \in keyword_map(canonical) :
            /\ OccursAt(low, kw, i)
            /\ LET p == i + Len(kw)
                   q == RunUntil(s, p, {"\n"})
               IN  /\ q - p <= 40
                   /\ \A k \in p..(q - 1) : IsFallbackTailChar(s[k])

\* rgx.search(text), m.start('header'): the 0-based offset of the leftmost
\* match, or -1 (lines 99-101)
FallbackSearch(s, canonical) ==
    LET st == LineStarts(s)
        ok == {k \in 1..Len(st) : st[k] <= Len(s) + 1
                                   /\ FallbackHeaderAt(s, st[k], canonical)}
    IN  IF ok = {} THEN -1 ELSE st[Min(ok)] - 1

\* lines 96-104: the keys the line scan did not find, in keyword_map order
FallbackAdditions(s, secs) ==
    LET found == SelectSeq(CanonicalKeys,
                     LAMBDA c : c \notin SectionNames(secs)
                                /\ FallbackSearch(s, c) # -1)
    IN  [j \in 1..Len(found) |->
            [name  |-> found[j],
             start |-> FallbackSearch(s, found[j]),
             end   |-> Len(s)]]

\* the trigger of the fallback pass, line 88
FallbackThreshold == 2

\* the mutation: the fallback pass runs whatever the line scan found
detect_sections_fallback_always(s) ==
    LET pass1 == CloseSpans(LineScan(s))
    IN  CloseSpans(pass1 \o FallbackAdditions(s, pass1))

detect_sections(s) ==
    LET pass1 == CloseSpans(LineScan(s))
    IN  IF Len(pass1) < FallbackThreshold
        THEN CloseSpans(pass1 \o FallbackAdditions(s, pass1))
        ELSE pass1

\* extract_section, lines 114-129
extract_section(s, section_name) ==
    LET secs == detect_sections(s)
    IN  IF section_name \in SectionNames(secs)
        THEN Strip(SubSeq(s, SpanOf(secs, section_name)[1] + 1,
                             SpanOf(secs, section_name)[2]))
        ELSE <<>>

-----------------------------------------------------------------------------
(* detect_numbered_sections, text_processor.py lines 140-193.              *)

\* _NUMBERED_HEADING_RE.match(line), line 140: the label group, or <<>> when
\* the line does not match.  ^(\d+(?:\.\d+)*)[\s\.-]+(\S.*)$ : the label is
\* the longest prefix of dot-separated digit groups that is followed by a
\* run of separators and then a non-space character (the regex gives back a
\* trailing ".digits" group when the full prefix has no separator after it).
NumberedHeadingLabel(line) ==
    LET seps == Whitespace \cup {".", "-"}
        IsLabel(e) ==
            /\ \A i \in 1..e : line[i] \in Digits \cup {"."}
            /\ line[1] \in Digits /\ line[e] \in Digits
            /\ \A i \in 1..(e - 1) : ~(line[i] = "." /\ line[i + 1] = ".")
            /\ ~(e < Len(line) /\ line[e + 1] \in Digits)
        HasTitle(e) ==
            \E k \in (e + 2)..Len(line) :
                /\ \A j \in (e + 1)..(k - 1) : line[j] \in seps
                /\ ~IsSpace(line[k])
        ends == {e \in 1..Len(line) : IsLabel(e) /\ HasTitle(e)}
    IN  IF ends = {} THEN <<>> ELSE SubSeq(line, 1, Max(ends))

\* the entries list, lines 157-171: label, depth and start of every line
\* whose stripped form matches, in line order
numbered_entries(s) ==
    LET st    == LineStarts(s)
        label == [k \in 1..Len(st) |-> NumberedHeadingLabel(Strip(LineAt(s, k)))]
        hits  == SelectSeq([k \in 1..Len(st) |-> k], LAMBDA k : label[k] # <<>>)
    IN  [n \in 1..Len(hits) |->
            [label |-> label[hits[n]],
             depth |-> Len(SelectSeq(label[hits[n]], LAMBDA c : c = ".")) + 1,
             start |-> st[hits[n]] - 1]]

\* lines 174-193.  The result is the dict in insertion order: one item per
\* label, at the position of the label's first entry, with the span computed
\* for its last entry (sections[label] = ... overwrites).
detect_numbered_sections(s) ==
    LET entries == numbered_entries(s)
        closes(i, j) ==
            /\ ~StartsWith(entries[j].label, entries[i].label \o <<".">>)
            /\ entries[j].depth <= entries[i].depth
        end(i) ==
            LET after == {j \in (i + 1)..Len(entries) : closes(i, j)}
            IN  IF after = {} THEN Len(s) ELSE entries[Min(after)].start
        first == SelectSeq(Indices(entries),
                     LAMBDA i : \A j \in 1..(i - 1) : entries[j].label # entries[i].label)
        last(i) == Max({j \in DOMAIN entries : entries[j].label = entries[i].label})
    IN  [n \in 1..Len(first) |->
            [label |-> entries[first[n]].label,
             start |-> entries[last(first[n])].start,
             end   |-> end(last(first[n]))]]

-----------------------------------------------------------------------------
(* The word budget, scientific_summarizer.py lines 172-176, 259 and 281.   *)

\* the mutation: the conclusion section is summarized too
priority_sections_with_conclusion ==
    <<"methods", "methodology", "results", "conclusion">>

\* the mutation: the list is walked from results to methods
priority_sections_results_first == <<"results", "methodology", "methods">>

\* lines 166-170
priority_sections == <<"methods", "methodology", "results">>

\* int(x * num/den) for the float factors 0.6, 0.8, 0.4 and 0.85: int()
\* truncates toward zero.  (Python's float product and this integer form
\* agree for every x in -5000..20000.)
IntScale(x, num, den) ==
    IF x >= 0 THEN (x * num) \div den ELSE -(((-x) * num) \div den)

MaxOf(a, b) == IF a >= b THEN a ELSE b

\* the mutation: the pool is divided among the present sections without the
\* floor of 80 words
per_section_words_no_floor(effective, present) ==
    LET total_budget        == MaxOf(200, effective)
        section_budget_pool == MaxOf(100, IntScale(total_budget, 6, 10))
    IN  section_budget_pool \div MaxOf(1, IF present = 0 THEN 1 ELSE present)

\* lines 174-176; present = the number of priority sections that are keys of
\* the detected mapping
per_section_words(effective, present) ==
    LET total_budget        == MaxOf(200, effective)
        section_budget_pool == MaxOf(100, IntScale(total_budget, 6, 10))
    IN  MaxOf(80, section_budget_pool \div MaxOf(1, IF present = 0 THEN 1 ELSE present))

\* the mutation: the overview gets what two section summaries leave over
overview_target_leftover(effective, has_summaries) ==
    IF ~has_summaries THEN MaxOf(400, IntScale(effective, 8, 10))
    ELSE MaxOf(200, effective - 2 * per_section_words(effective, 2))

\* the mutation: the overview target does not depend on the context
overview_target_flat(effective, has_summaries) ==
    MaxOf(200, IntScale(effective, 4, 10))

\* line 259 (no section summaries) and line 281
overview_target(effective, has_summaries) ==
    IF ~has_summaries THEN MaxOf(400, IntScale(effective, 8, 10))
    ELSE MaxOf(200, IntScale(effective, 4, 10))

-----------------------------------------------------------------------------
(* Values of the variables a specification does not use.                   *)

NoSummary == [none |-> TRUE]

NoError == <<"<no error>">>

NotCalled == <<"<not called>">>

HarnessIdle == arg = <<>> /\ res = <<>> /\ stage = "idle"

RunIdle ==
    /\ pc = "idle"
    /\ raw_text = <<>>
    /\ summary_max_words = 0
    /\ effective_max = 0
    /\ text = <<>>
    /\ sections = <<>>
    /\ section_index = 0
    /\ section_summaries = <<>>
    /\ overview = <<>>
    /\ key_findings = <<>>
    /\ draft = <<>>
    /\ expanded = NotCalled
    /\ summary = NoSummary
    /\ error = NoError
    /\ calls = <<>>

\* the sequences over S of length at most n
SeqsUpTo(S, n) == UNION {[1..k -> S] : k \in 0..n}

\* '\n'.join(lines)
RECURSIVE JoinLines(_)
JoinLines(lines) ==
    IF Len(lines) = 0 THEN <<>>
    ELSE IF Len(lines) = 1 THEN lines[1]
    ELSE lines[1] \o <<"\n">> \o JoinLines(Tail(lines))

-----------------------------------------------------------------------------
(* truncate_to_words applied to every short string.                        *)

MaxTruncLen == 4

MaxTruncWords == 3

InitTrunc ==
    LET
        TruncChars == {"a", "-", " ", "\n", "#"}
    IN
        /\ arg \in [s : SeqsUpTo(TruncChars, MaxTruncLen), n : 0..MaxTruncWords]
        /\ res = <<>>
        /\ stage = "input"
        /\ RunIdle

Truncate ==
    /\ stage = "input"
    /\ res' = truncate_to_words(arg.s, arg.n)
    /\ stage' = "truncated"
    /\ UNCHANGED <<arg, run_vars>>

SpecTrunc == InitTrunc /\ [][Truncate]_vars

-----------------------------------------------------------------------------
(* clean_text applied once and then again to its own result.               *)

MaxCleanLines == 4

InitClean ==
    LET
        CleanLines ==
            {<<"a">>, <<"1">>, <<" ", "1", "2", " ">>, <<>>, <<"b", "\r">>, <<LigFi, " ">>}
    IN
        /\ arg \in {JoinLines(ls) : ls \in SeqsUpTo(CleanLines, MaxCleanLines)}
        /\ res = <<>>
        /\ stage = "raw"
        /\ RunIdle

Normalize ==
    /\ stage = "raw"
    /\ res' = clean_text(arg)
    /\ stage' = "once"
    /\ UNCHANGED <<arg, run_vars>>

\* the normalized text is normalized again: arg is now the first result
NormalizeAgain ==
    /\ stage = "once"
    /\ arg' = res
    /\ res' = clean_text(res)
    /\ stage' = "twice"
    /\ UNCHANGED run_vars

SpecClean == InitClean /\ [][Normalize \/ NormalizeAgain]_vars

-----------------------------------------------------------------------------
(* detect_sections applied to every text of a few lines.                   *)

MaxDetectLines == 3

L_Abstract ==
    <<"A", "b", "s", "t", "r", "a", "c", "t">>
L_ResultsAndDiscussion ==
    <<"R", "e", "s", "u", "l", "t", "s", " ", "a", "n", "d", " ", "D", "i", "s", "c", "u",
      "s", "s", "i", "o", "n">>
L_Body ==
    <<"p", "l", "a", "i", "n", " ", "b", "o", "d", "y", " ", "t", "e", "x", "t">>

DetectLines ==
    LET
        L_NumericalResults ==
            <<"2", " ", "N", "u", "m", "e", "r", "i", "c", "a", "l", " ", "R", "e", "s", "u", "l",
              "t", "s">>
        L_AbstractsOfResults ==
            <<"a", "b", "s", "t", "r", "a", "c", "t", "s", " ", "o", "f", " ", "r", "e", "s", "u",
              "l", "t", "s">>
        L_MarkdownMethods ==
            <<"#", "#", " ", "M", "e", "t", "h", "o", "d", "s">>
        L_Sentence ==
            <<"W", "e", " ", "r", "e", "p", "o", "r", "t", " ", "t", "h", "e", " ", "r", "e", "s",
              "u", "l", "t", "s", " ", "o", "f", " ", "a", "l", "l", " ", "t", "h", "e", " ", "r",
              "u", "n", "s", ".">>
        L_Indented ==
            <<" ", " ", "C", "o", "n", "c", "l", "u", "s", "i", "o", "n", "s", ":", " ">>
        \* longer than 80 characters, with a keyword in it
        L_Long == Rep(<<"x">>, 81) \o <<" ">> \o W_methods
    IN
        {L_Abstract, L_ResultsAndDiscussion, L_NumericalResults, L_AbstractsOfResults,
         L_MarkdownMethods, L_Body, L_Sentence, L_Indented, L_Long, <<>>}

InitDetect ==
    /\ arg \in {JoinLines(ls) : ls \in SeqsUpTo(DetectLines, MaxDetectLines)}
    /\ res = <<>>
    /\ stage = "text"
    /\ RunIdle

Detect ==
    /\ stage = "text"
    /\ res' = detect_sections(arg)
    /\ stage' = "detected"
    /\ UNCHANGED <<arg, run_vars>>

SpecDetect == InitDetect /\ [][Detect]_vars

-----------------------------------------------------------------------------
(* detect_numbered_sections applied to texts of numbered heading lines.    *)

MaxNumberedLines == 4

InitNumbered ==
    LET NumberedLines ==
            {<<"1", " ", "A">>, <<"1", ".", "1", " ", "B">>,
             <<"1", ".", "1", ".", "1", " ", "C">>, <<"1", ".", "2", "-", "D">>,
             <<"2", ".", " ", "E">>, <<" ", "2", ".", "1", " ", "F">>, L_Body}
    IN  /\ arg \in {JoinLines(ls) : ls \in SeqsUpTo(NumberedLines, MaxNumberedLines)}
        /\ res = <<>>
        /\ stage = "text"
        /\ RunIdle

DetectNumbered ==
    /\ stage = "text"
    /\ res' = detect_numbered_sections(arg)
    /\ stage' = "numbered"
    /\ UNCHANGED <<arg, run_vars>>

SpecNumbered == InitNumbered /\ [][DetectNumbered]_vars

-----------------------------------------------------------------------------
(* The budget planned for two total targets.                               *)

MaxNegTarget == 50

MaxTarget == 520

MaxTargetStep == 2

InitBudget ==
    /\ arg \in [total1 : (0 - MaxNegTarget)..MaxTarget, step : 0..MaxTargetStep,
                present : 0..Len(priority_sections), has_summaries : BOOLEAN]
    /\ res = <<>>
    /\ stage = "targets"
    /\ RunIdle

PlanBudget ==
    /\ stage = "targets"
    /\ res' = [t \in {arg.total1, arg.total1 + arg.step} |->
                 [per_section |-> per_section_words(t, arg.present),
                  overview    |-> overview_target(t, arg.has_summaries)]]
    /\ stage' = "planned"
    /\ UNCHANGED <<arg, run_vars>>

SpecBudget == InitBudget /\ [][PlanBudget]_vars

-----------------------------------------------------------------------------
(* Claims about the pure text functions.                                   *)

\* C1: the spans detect_sections returns are pairwise non-overlapping, every
\* span has start < end, and every span lies within [0, len(text)].
C1_SpansWellFormed ==
    stage = "detected" =>
        /\ \A i \in DOMAIN res :
              res[i].start < res[i].end /\ 0 <= res[i].start
                                        /\ res[i].end <= Len(arg)
        /\ \A i, j \in DOMAIN res :
              i # j => res[i].end <= res[j].start \/ res[j].end <= res[i].start

\* C7: clean_text is idempotent: cleaning a cleaned text returns it unchanged.
C7_CleanTextIdempotent == stage = "twice" => res = arg

\* C8: truncate_to_words(s, N) returns a string of at most N words, as
\* count_words counts them.
C8_TruncatedWithinWordCap == stage = "truncated" => count_words(res) <= arg.n

\* C9: truncate_to_words(s, N) returns s unchanged whenever count_words(s) <= N.
C9_NoOpWithinWordCap ==
    stage = "truncated" /\ count_words(arg.s) <= arg.n => res = arg.s

\* C10: budget monotonicity: with the number of present priority sections and
\* the overview context fixed, a larger total target never gives a smaller
\* per-section target or a smaller overview target.
C10_BudgetMonotone ==
    stage = "planned" =>
        \A t1, t2 \in DOMAIN res :
            t1 <= t2 => /\ res[t1].per_section <= res[t2].per_section
                        /\ res[t1].overview <= res[t2].overview

\* C10's case: two different targets planned above the floors, where both the
\* per-section and the overview target grew
C10_Witness ==
    /\ stage = "planned"
    /\ arg.step > 0
    /\ arg.has_summaries
    /\ arg.present = 2
    /\ res[arg.total1].overview > 200
    /\ res[arg.total1].overview < res[arg.total1 + arg.step].overview
    /\ res[arg.total1].per_section > 80
    /\ res[arg.total1].per_section < res[arg.total1 + arg.step].per_section

\* the item i of a mapping comes before the item j when the items are sorted
\* by start (a stable sort: equal starts keep the insertion order)
SortsBefore(secs, i, j) ==
    \/ secs[i].start < secs[j].start
    \/ secs[i].start = secs[j].start /\ i < j

\* every span ends at the start of the next span in the order of the starts,
\* and the last one at `len`
SpansClosed(secs, len) ==
    \A i \in DOMAIN secs :
        LET later == {j \in DOMAIN secs : SortsBefore(secs, i, j)}
        IN  IF later = {} THEN secs[i].end = len
            ELSE /\ \E j \in later : secs[i].end = secs[j].start
                 /\ \A j \in later : secs[i].end <= secs[j].start

\* the lines of the text that the line scan takes as headers of a key
HeaderLinesOf(s, canonical) ==
    {k \in DOMAIN LineStarts(s) : IsHeaderLine(LineAt(s, k), canonical)}

\* C22: the fallback pass of detect_sections runs only when the line scan
\* found fewer than 2 sections; when it runs it only adds keys the line scan
\* did not find, never changes the start of a key the line scan found, and
\* afterwards all spans are re-closed (starts sorted, each end clipped to the
\* next start).
C22_FallbackOnlyAdds ==
    stage = "detected" =>
        LET scan  == LineScan(arg)
            added == SectionNames(res) \ SectionNames(scan)
        IN  /\ Len(scan) >= 2 => added = {}
            /\ \A i \in DOMAIN scan :
                  /\ res[i].name = scan[i].name
                  /\ res[i].start = scan[i].start
            /\ Len(res) = Len(scan) + Cardinality(added)
            /\ \A n \in added : /\ HeaderLinesOf(arg, n) = {}
                                /\ SpanOf(res, n)[1] = FallbackSearch(arg, n)
            /\ SpansClosed(res, Len(arg))

\* C22's case: the line scan found one section and the fallback pass added a
\* second one
C22_Witness ==
    /\ stage = "detected"
    /\ Len(LineScan(arg)) = 1
    /\ Len(res) = 2
    /\ res[1].name = LineScan(arg)[1].name
    /\ res[2].name \notin SectionNames(LineScan(arg))

C24_SpansTile ==
    stage = "detected" =>
        /\ SpansClosed(res, Len(arg))
        /\ res # <<>> =>
              \A p \in Min({res[i].start : i \in DOMAIN res})..(Len(arg) - 1) :
                  \E i \in DOMAIN res : res[i].start <= p /\ p < res[i].end

\* C24's case: two or more spans with different starts, the first of them
\* after the beginning of the text
C24_Witness ==
    /\ stage = "detected"
    /\ Len(res) >= 2
    /\ \A i, j \in DOMAIN res : i # j => res[i].start # res[j].start
    /\ \A i \in DOMAIN res : res[i].start > 0
    /\ \E i \in DOMAIN res : res[i].end < Len(arg)

\* C11: for every total target (0, negative and below 200 included) and every
\* count of present priority sections, the per-section word target is at
\* least 80 and the overview word target is at least 200.
C11_BudgetFloors ==
    stage = "planned" =>
        \A t \in DOMAIN res : res[t].per_section >= 80 /\ res[t].overview >= 200

\* C11's case: a negative total target with three present sections, where
\* both targets sit on their floors
C11_Witness ==
    /\ stage = "planned"
    /\ arg.total1 < 0
    /\ arg.present = Len(priority_sections)
    /\ arg.has_summaries
    /\ res[arg.total1].per_section = 80
    /\ res[arg.total1].overview = 200

\* the span the mapping holds for a label
NumberedSpanOf(secs, label) ==
    LET i == CHOOSE i \in DOMAIN secs : secs[i].label = label
    IN  secs[i]

\* C12: in detect_numbered_sections, for any heading with label L that is
\* followed by headings whose labels begin with L + "." and then by a heading
\* of depth <= depth(L) that is not a descendant of L, every such descendant's
\* span lies inside [start_L, end_L) and end_L is the start of that closing
\* heading.
C12_DescendantsNested ==
    stage = "numbered" =>
        LET es == numbered_entries(arg)
            desc(j, i) == StartsWith(es[j].label, es[i].label \o <<".">>)
        IN  \A i, c \in DOMAIN es :
                (/\ i + 1 < c
                 /\ \A j \in (i + 1)..(c - 1) : desc(j, i)
                 /\ ~desc(c, i)
                 /\ es[c].depth <= es[i].depth)
                => LET parent == NumberedSpanOf(res, es[i].label)
                   IN  /\ parent.end = es[c].start
                       /\ \A j \in (i + 1)..(c - 1) :
                             LET child == NumberedSpanOf(res, es[j].label)
                             IN  /\ parent.start <= child.start
                                 /\ child.start < parent.end
                                 /\ child.end <= parent.end

-----------------------------------------------------------------------------
(* ScientificPaperSummarizer, scientific_summarizer.py.  The generation    *)
(* capability (generate_content of the instantiated model) is the          *)
(* environment: each call either returns a response text or raises an      *)
(* exception with a message.  The paper's title is passed through to the    *)
(* Summary unchanged and is left out.                                      *)

S_SummaryFailed ==
    <<"S", "u", "m", "m", "a", "r", "y", " ", "g", "e", "n", "e", "r", "a", "t", "i", "o",
      "n", " ", "f", "a", "i", "l", "e", "d", ".">>
S_OverviewFailed ==
    <<"O", "v", "e", "r", "v", "i", "e", "w", " ", "g", "e", "n", "e", "r", "a", "t", "i",
      "o", "n", " ", "f", "a", "i", "l", "e", "d", ".">>
S_RateLimitPrefix ==
    <<"A", "P", "I", " ", "R", "a", "t", "e", " ", "L", "i", "m", "i", "t", " ", "E", "x",
      "c", "e", "e", "d", "e", "d", ":", " ">>
S_SectionErrorPrefix ==
    <<"S", "e", "c", "t", "i", "o", "n", " ", "s", "u", "m", "m", "a", "r", "i", "z", "a",
      "t", "i", "o", "n", " ", "f", "a", "i", "l", "e", "d", ":", " ">>
S_OverviewErrorPrefix ==
    <<"O", "v", "e", "r", "v", "i", "e", "w", " ", "g", "e", "n", "e", "r", "a", "t", "i",
      "o", "n", " ", "f", "a", "i", "l", "e", "d", ":", " ">>
S_FindingsErrorPrefix ==
    <<"K", "e", "y", " ", "f", "i", "n", "d", "i", "n", "g", "s", " ", "e", "x", "t", "r",
      "a", "c", "t", "i", "o", "n", " ", "f", "a", "i", "l", "e", "d", ":", " ">>
S_429 ==
    <<"4", "2", "9">>
S_quota ==
    <<"q", "u", "o", "t", "a">>
S_Title ==
    <<"#", " ", "S", "C", "I", "E", "N", "T", "I", "F", "I", "C", " ", "P", "A", "P", "E",
      "R", " ", "S", "U", "M", "M", "A", "R", "Y", "\n">>
S_Overview ==
    <<"#", "#", " ", "O", "v", "e", "r", "v", "i", "e", "w">>
S_KeyFindings ==
    <<"\n", "#", "#", " ", "K", "e", "y", " ", "F", "i", "n", "d", "i", "n", "g", "s">>
S_Methodology ==
    <<"\n", "#", "#", " ", "M", "e", "t", "h", "o", "d", "o", "l", "o", "g", "y">>
S_Results ==
    <<"\n", "#", "#", " ", "R", "e", "s", "u", "l", "t", "s">>
S_Conclusions ==
    <<"\n", "#", "#", " ", "C", "o", "n", "c", "l", "u", "s", "i", "o", "n", "s">>
E_Http429 ==
    <<"H", "T", "T", "P", " ", "4", "2", "9", " ", "T", "o", "o", " ", "M", "a", "n", "y",
      " ", "R", "e", "q", "u", "e", "s", "t", "s">>
E_Quota ==
    <<"Q", "u", "o", "t", "a", " ", "e", "x", "c", "e", "e", "d", "e", "d">>

\* settings.summary_max_words, config/settings.py line 65
settings_summary_max_words == 800

\* a section name as characters
NameChars(name) ==
    CASE name = "methods"     -> W_methods
      [] name = "methodology" -> W_methodology
      [] name = "results"     -> W_results
      [] name = "discussion"  -> W_discussion
      [] name = "conclusion"  -> W_conclusion

UpperChar(c) ==
    IF c \in Range(LowerLetters)
    THEN UpperLetters[CHOOSE i \in DOMAIN LowerLetters : LowerLetters[i] = c]
    ELSE c

\* str.upper()
Upper(s) == [i \in 1..Len(s) |-> UpperChar(s[i])]

\* An Optional[str] that is None
None == <<"<None>">>

\* section_summaries is the sequence of the dict's items [name, summary] in
\* insertion order
HasKey(d, name) == \E i \in DOMAIN d : d[i].name = name

\* d.get(name)
Get(d, name) ==
    IF HasKey(d, name)
    THEN d[CHOOSE i \in DOMAIN d : d[i].name = name].summary
    ELSE None

\* a or b, for Optional[str]
OrElse(a, b) == IF a = None \/ a = <<>> THEN b ELSE a

\* sep.join(parts)
RECURSIVE JoinWith(_, _)
JoinWith(parts, sep) ==
    IF Len(parts) = 0 THEN <<>>
    ELSE IF Len(parts) = 1 THEN parts[1]
    ELSE parts[1] \o sep \o JoinWith(Tail(parts), sep)

\* the outcome of one generation call
Responded(t) == [ok |-> TRUE, text |-> t, err |-> <<>>]

Failed(e) == [ok |-> FALSE, text |-> <<>>, err |-> e]

\* the mutation: the quota marker is looked for without .lower()
IsRateLimitError_case_sensitive(e) == Contains(e, S_429) \/ Contains(e, S_quota)

\* "429" in str(e) or "quota" in str(e).lower(): lines 236, 315, 391
IsRateLimitError(e) == Contains(e, S_429) \/ Contains(Lower(e), S_quota)

\* the except clauses, lines 233-238, 312-317 and 388-393: the message of the
\* RuntimeError raised in place of e
Reraise(prefix, e) ==
    IF IsRateLimitError(e) THEN S_RateLimitPrefix \o e ELSE prefix \o e

\* (getattr(response, "text", "") or "").strip() or placeholder
TextOr(outcome, placeholder) ==
    LET t == Strip(outcome.text) IN IF t = <<>> THEN placeholder ELSE t

\* What a method of the summarizer does with the outcome of its generation
\* call: it returns `value`, or raises an exception with message `value`.
Returns(v) == [raised |-> FALSE, value |-> v]

Raises(msg) == [raised |-> TRUE, value |-> msg]

\* the mutation: the stripped response is returned as it is
summarize_chunk_keep_empty(outcome) ==
    IF outcome.ok THEN Returns(Strip(outcome.text))
    ELSE Raises(Reraise(S_SectionErrorPrefix, outcome.err))

\* _summarize_chunk, lines 216-238
summarize_chunk(outcome) ==
    IF outcome.ok THEN Returns(TextOr(outcome, S_SummaryFailed))
    ELSE Raises(Reraise(S_SectionErrorPrefix, outcome.err))

\* the mutation: a failed overview call is logged and a placeholder returned
generate_overview_swallow(outcome) ==
    IF outcome.ok THEN Returns(TextOr(outcome, S_OverviewFailed))
    ELSE Returns(S_OverviewFailed)

\* _generate_overview, lines 297-317
generate_overview(outcome) ==
    IF outcome.ok THEN Returns(TextOr(outcome, S_OverviewFailed))
    ELSE Raises(Reraise(S_OverviewErrorPrefix, outcome.err))

\* U+2022
Bullet == "<U+2022>"

\* line.lstrip('0123456789.)-<U+2022> ')
LStripMarkers(s) ==
    SubSeq(s, RunEnd(s, 1, Digits \cup {".", ")", "-", Bullet, " "}),
           Len(s))

\* the mutation: the list is cut to its last five entries
ParseFindings_last_five(findings_text) ==
    LET st      == LineStarts(findings_text)
        cleaned == [k \in 1..Len(st) |->
                       LStripMarkers(Strip(LineAt(findings_text, k)))]
        kept    == SelectSeq(cleaned, LAMBDA l : l # <<>>)
    IN  SubSeq(kept, IF Len(kept) < 5 THEN 1 ELSE Len(kept) - 4, Len(kept))

\* lines 378-387
ParseFindings(findings_text) ==
    LET st      == LineStarts(findings_text)
        cleaned == [k \in 1..Len(st) |->
                       LStripMarkers(Strip(LineAt(findings_text, k)))]
        kept    == SelectSeq(cleaned, LAMBDA l : l # <<>>)
    IN  SubSeq(kept, 1, IF Len(kept) < 5 THEN Len(kept) ELSE 5)

\* _extract_key_findings, lines 357-393
extract_key_findings(outcome) ==
    IF outcome.ok THEN Returns(ParseFindings(Strip(outcome.text)))
    ELSE Raises(Reraise(S_FindingsErrorPrefix, outcome.err))

\* the mutation: a failed expansion returns a placeholder, as the other
\* methods' empty-response path does
expand_summary_placeholder(current_summary, outcome) ==
    IF outcome.ok THEN Returns(TextOr(outcome, current_summary))
    ELSE Returns(S_SummaryFailed)

\* the mutation: a failed expansion call is re-raised as the other phases do
expand_summary_raises(current_summary, outcome) ==
    IF outcome.ok THEN Returns(TextOr(outcome, current_summary))
    ELSE Raises(Reraise(S_SummaryFailed, outcome.err))

\* _expand_summary, lines 470-486
expand_summary(current_summary, outcome) ==
    IF outcome.ok THEN Returns(TextOr(outcome, current_summary))
    ELSE Returns(current_summary)

\* text[:n] + "..." if len(text) > n else text, lines 256 and 344
Excerpt(s, n) == IF Len(s) > n THEN SubSeq(s, 1, n) \o Ellipsis ELSE s

\* the mutation: without section summaries the overview prompt gets no text
OverviewContext_no_excerpt(s, summaries) ==
    IF summaries = <<>> THEN <<>>
    ELSE JoinWith([i \in DOMAIN summaries |->
                      Upper(NameChars(summaries[i].name)) \o <<":", "\n">>
                          \o summaries[i].summary],
                  <<"\n", "\n">>)

\* the context of the overview prompt, lines 254-256 and 276-279
OverviewContext(s, summaries) ==
    IF summaries = <<>> THEN Excerpt(s, 2000)
    ELSE JoinWith([i \in DOMAIN summaries |->
                      Upper(NameChars(summaries[i].name)) \o <<":", "\n">>
                          \o summaries[i].summary],
                  <<"\n", "\n">>)

\* the raw-text excerpt of the key-finding prompt, line 344
FindingsExcerptChars == 3000

\* the mutation: the context is built from the methods and results summaries
FindingsContext_methods_first(s, summaries) ==
    LET chosen   == SelectSeq(<<"methods", "results", "discussion", "conclusion">>,
                              LAMBDA n : HasKey(summaries, n))
        relevant == JoinWith([i \in DOMAIN chosen |->
                                 <<"\n", "\n">> \o Get(summaries, chosen[i])], <<>>)
        all      == JoinWith([i \in DOMAIN summaries |-> summaries[i].summary],
                             <<"\n", "\n">>)
        second   == IF relevant = <<>> /\ summaries # <<>> THEN all ELSE relevant
    IN  IF second = <<>> THEN Excerpt(s, FindingsExcerptChars) ELSE second

\* relevant_text of the key-finding prompt, lines 333-344
FindingsContext(s, summaries) ==
    LET chosen   == SelectSeq(<<"results", "discussion", "conclusion">>,
                              LAMBDA n : HasKey(summaries, n))
        relevant == JoinWith([i \in DOMAIN chosen |->
                                 <<"\n", "\n">> \o Get(summaries, chosen[i])], <<>>)
        all      == JoinWith([i \in DOMAIN summaries |-> summaries[i].summary],
                             <<"\n", "\n">>)
        second   == IF relevant = <<>> /\ summaries # <<>> THEN all ELSE relevant
    IN  IF second = <<>> THEN Excerpt(s, FindingsExcerptChars) ELSE second

\* the number of priority sections that are keys of the mapping, line 173
PresentCount(secs) ==
    Cardinality({k \in DOMAIN priority_sections :
                    priority_sections[k] \in SectionNames(secs)})

\* the mutation: a section of exactly 100 characters is summarized too
NextToSummarize_from_100(s, secs, from) ==
    Min({k \in from..Len(priority_sections) :
            /\ priority_sections[k] \in SectionNames(secs)
            /\ Len(extract_section(s, priority_sections[k])) >= 100}
        \cup {Len(priority_sections) + 1})

\* the loop of lines 178-188 from position `from`: the position of the next
\* priority section that is detected and whose text is longer than 100
\* characters, or Len(priority_sections) + 1
NextToSummarize(s, secs, from) ==
    Min({k \in from..Len(priority_sections) :
            /\ priority_sections[k] \in SectionNames(secs)
            /\ Len(extract_section(s, priority_sections[k])) > 100}
        \cup {Len(priority_sections) + 1})

NumberChars == <<"1", "2", "3", "4", "5">>

\* the mutation: the results heading comes before the methodology heading
full_draft_results_first(ov, summaries, findings) ==
    JoinWith(
        <<S_Title, S_Overview, ov, S_KeyFindings>>
        \o [i \in DOMAIN findings |-> <<NumberChars[i], ".", " ">> \o findings[i]]
        \o (IF HasKey(summaries, "results")
            THEN <<S_Results, Get(summaries, "results")>> ELSE <<>>)
        \o (IF HasKey(summaries, "methodology") \/ HasKey(summaries, "methods")
            THEN <<S_Methodology,
                   OrElse(Get(summaries, "methodology"),
                          OrElse(Get(summaries, "methods"), <<>>))>>
            ELSE <<>>)
        \o (IF HasKey(summaries, "conclusion")
            THEN <<S_Conclusions, Get(summaries, "conclusion")>> ELSE <<>>),
        <<"\n", "\n">>)

\* `full` as joined at line 437 of _compile_full_summary (lines 414-437)
full_draft(ov, summaries, findings) ==
    JoinWith(
        <<S_Title, S_Overview, ov, S_KeyFindings>>
        \o [i \in DOMAIN findings |-> <<NumberChars[i], ".", " ">> \o findings[i]]
        \o (IF HasKey(summaries, "methodology") \/ HasKey(summaries, "methods")
            THEN <<S_Methodology,
                   OrElse(Get(summaries, "methodology"),
                          OrElse(Get(summaries, "methods"), <<>>))>>
            ELSE <<>>)
        \o (IF HasKey(summaries, "results")
            THEN <<S_Results, Get(summaries, "results")>> ELSE <<>>)
        \o (IF HasKey(summaries, "conclusion")
            THEN <<S_Conclusions, Get(summaries, "conclusion")>> ELSE <<>>),
        <<"\n", "\n">>)

\* the target of the expansion pass, line 440
expansion_target(effective) == MaxOf(200, effective)

\* line 441
ExpansionNeeded(full, effective) ==
    count_words(full) < IntScale(expansion_target(effective), 85, 100)

\* the mutation: the compiled text is returned without the cap
EnforceCap_skipped(full, effective) == full

\* lines 446-449: the global word cap
EnforceCap(full, effective) ==
    IF effective # 0 THEN truncate_to_words(full, effective) ELSE full

\* the Summary built at lines 138-147
MakeSummary(ov, findings, summaries, full) ==
    [overview     |-> ov,
     key_findings |-> findings,
     methodology  |-> OrElse(Get(summaries, "methods"), Get(summaries, "methodology")),
     results      |-> Get(summaries, "results"),
     conclusions  |-> Get(summaries, "conclusion"),
     full_summary |-> full,
     word_count   |-> count_words(full)]

\* one generation call, as logged
Call(kind, name, target, context, outcome) ==
    [kind |-> kind, section |-> name, target_words |-> target,
     context |-> context, ok |-> outcome.ok, response |-> outcome.text,
     err |-> outcome.err]

-----------------------------------------------------------------------------
(* The inputs of a run and the environment's responses.                    *)

\* a section is summarized when its text is longer than this, line 181
SectionMinChars == 100

\* the words of the long response
LongWords == 210

XBody(n) == Rep(<<"x">>, n)

Documents ==
    LET
        L_Introduction ==
            <<"1", ".", " ", "I", "n", "t", "r", "o", "d", "u", "c", "t", "i", "o", "n">>
        L_Methods ==
            <<"M", "e", "t", "h", "o", "d", "s">>
        L_Results ==
            <<"R", "e", "s", "u", "l", "t", "s">>
        L_Conclusion ==
            <<"C", "o", "n", "c", "l", "u", "s", "i", "o", "n">>
        L_Methodology ==
            <<"3", ".", "1", " ", "M", "e", "t", "h", "o", "d", "o", "l", "o", "g", "y">>
        L_PageNumber ==
            <<" ", "7", " ">>
        L_AbstractCR ==
            <<"A", "b", "s", "t", "r", "a", "c", "t", "\r">>
        \* every section longer than SectionMinChars; a \r\n line ending and a
        \* page-number line for clean_text to remove
        Doc_Full ==
            JoinLines(<<L_AbstractCR, XBody(SectionMinChars), L_PageNumber,
                        L_Introduction, XBody(SectionMinChars),
                        L_Methods, XBody(SectionMinChars),
                        L_Results, XBody(SectionMinChars),
                        L_Conclusion, XBody(SectionMinChars)>>)
        \* no heading at all
        Doc_Plain == L_Body
        Doc_Empty == <<>>
        \* a methods section of exactly SectionMinChars characters and a results
        \* section of one more ("Methods" and "Results" have 7 characters, the
        \* newline is the 8th)
        Doc_Edge ==
            JoinLines(<<L_Methods, XBody(SectionMinChars - 8),
                        L_Results, XBody(SectionMinChars - 7)>>)
        \* one heading line that two canonical keys match
        Doc_Tie ==
            JoinLines(<<L_Abstract, XBody(SectionMinChars),
                        L_ResultsAndDiscussion, XBody(SectionMinChars)>>)
        \* a single numbered heading
        Doc_Methodology == JoinLines(<<L_Methodology, XBody(SectionMinChars)>>)
        \* one character longer than the excerpt of the key-finding prompt
        Doc_Long == XBody(FindingsExcerptChars + 1)
    IN
    {Doc_Full, Doc_Plain, Doc_Empty, Doc_Edge, Doc_Tie, Doc_Methodology, Doc_Long}

\* summarize(summary_max_words=...): 0 is None (the setting's default applies)
TargetSamples == {0, 3, 150, 250}

LongText == Rep(<<"w", " ">>, LongWords)

\* the words of the middle-sized response
MidWords == 140

MidText == Rep(<<"w", " ">>, MidWords)

GenerationFailures ==
    LET
        E_Timeout ==
            <<"d", "e", "a", "d", "l", "i", "n", "e", " ", "e", "x", "c", "e", "e", "d", "e", "d">>
    IN
    {Failed(E_Http429), Failed(E_Quota), Failed(E_Timeout)}

SectionOutcomes ==
    LET
        R_ShortSummary ==
            <<"l", "e", "a", "s", "t", "-", "s", "q", "u", "a", "r", "e", "s", " ", "f", "i", "t">>
    IN
        {Responded(<<" ">>), Responded(R_ShortSummary)} \cup GenerationFailures

OverviewOutcomes ==
    LET
        R_ShortOverview ==
            <<"A", " ", "s", "t", "a", "t", "e", "-", "o", "f", "-", "t", "h", "e", "-", "a", "r",
              "t", " ", "s", "t", "u", "d", "y">>
    IN
        {Responded(<<" ", "\n">>), Responded(R_ShortOverview), Responded(MidText),
         Responded(LongText)} \cup GenerationFailures

FindingsOutcomes ==
    LET
        R_Findings ==
            <<"1", ".", " ", "F", "i", "n", "d", "i", "n", "g", " ", "A", "\n", "2", ")", " ", "F",
              "i", "n", "d", "i", "n", "g", " ", "B", "\n", "-", " ", "F", "i", "n", "d", "i", "n",
              "g", " ", "C">>
        \* six findings, a blank line and a line that is only a marker
        R_ManyFindings ==
            <<"1", ".", " ", "A", "\n", "\n", "2", ".", " ", "B", "\n", "-", "\n",
              "3", ".", " ", "C", "\n", "4", ".", " ", "D", "\n", "5", ".", " ", "E",
              "\n", "6", ".", " ", "F">>
    IN
        {Responded(<<>>), Responded(R_Findings), Responded(R_ManyFindings)}
            \cup GenerationFailures

ExpansionOutcomes ==
    LET
        R_Expansion ==
            <<"w", "e", "l", "l", "-", "k", "n", "o", "w", "n", " ", "s", "t", "a", "t", "e", "-",
              "o", "f", "-", "t", "h", "e", "-", "a", "r", "t", " ", "r", "e", "s", "u", "l", "t",
              "s", " ", "r", "e", "-", "e", "x", "a", "m", "i", "n", "e", "d", " ", "h", "e", "r",
              "e">>
    IN
        {Responded(<<>>), Responded(R_Expansion), Responded(LongText)}
            \cup GenerationFailures

-----------------------------------------------------------------------------
(* The key-finding parser applied to generation outputs made of a list     *)
(* marker and a finding text per line.                                     *)

MaxFindingLines == 3

InitFindings ==
    LET Markers ==
            {<<"1", ".", " ">>, <<"2", ")", " ">>, <<"-", " ">>, <<Bullet, " ">>}
        FindingTexts ==
            {<<"F", "i", "n", "d", "i", "n", "g", " ", "A">>,
             <<"3", " ", "o", "f", " ", "5", " ", "r", "u", "n", "s">>,
             <<"B">>}
    IN  /\ arg \in SeqsUpTo([marker : Markers, finding : FindingTexts], MaxFindingLines)
        /\ res = <<>>
        /\ stage = "output"
        /\ RunIdle

ParseOutput ==
    /\ stage = "output"
    /\ res' = extract_key_findings(
                  Responded(JoinLines([i \in DOMAIN arg |->
                                          arg[i].marker \o arg[i].finding]))).value
    /\ stage' = "parsed"
    /\ UNCHANGED <<arg, run_vars>>

SpecFindings == InitFindings /\ [][ParseOutput]_vars

\* C13: for a generation output whose lines each consist of a list marker
\* followed by a finding text, the extractor returns exactly the finding
\* texts, in line order, with the leading markers removed, also when a
\* finding's own text begins with a digit.
C13_FindingTextsReturned ==
    stage = "parsed" => res = [i \in DOMAIN arg |-> arg[i].finding]

-----------------------------------------------------------------------------
(* summarize(), lines 87-150.  Every action is the code from the return of *)
(* one generation call to the next generation call, or to the end.         *)

Init ==
    /\ HarnessIdle
    /\ pc = "start"
    /\ raw_text \in Documents
    /\ summary_max_words \in TargetSamples
    /\ effective_max = 0
    /\ text = <<>>
    /\ sections = <<>>
    /\ section_index = 0
    /\ section_summaries = <<>>
    /\ overview = <<>>
    /\ key_findings = <<>>
    /\ draft = <<>>
    /\ expanded = NotCalled
    /\ summary = NoSummary
    /\ error = NoError
    /\ calls = <<>>

\* lines 109-121 and 163-181: up to the first generation call
Start ==
    /\ pc = "start"
    /\ effective_max' = IF summary_max_words # 0 THEN summary_max_words
                        ELSE settings_summary_max_words
    /\ text' = clean_text(raw_text)
    /\ sections' = detect_sections(text')
    /\ section_index' = NextToSummarize(text', sections', 1)
    /\ pc' = IF section_index' <= Len(priority_sections) THEN "sections"
             ELSE "overview"
    /\ UNCHANGED <<harness_vars, raw_text, summary_max_words, section_summaries,
                   overview, key_findings, draft, expanded, summary, error, calls>>

\* lines 182-188: the call for priority_sections[section_index], then the
\* loop up to the next call
SummarizeSection(outcome) ==
    LET name == priority_sections[section_index]
        r    == summarize_chunk(outcome)
    IN  /\ pc = "sections"
        /\ calls' = Append(calls,
                Call("section", name,
                     per_section_words(effective_max, PresentCount(sections)),
                     extract_section(text, name), outcome))
        /\ IF r.raised
           THEN /\ pc' = "failed"
                /\ error' = r.value
                /\ UNCHANGED <<section_summaries, section_index>>
           ELSE /\ section_summaries' =
                       Append(section_summaries, [name |-> name, summary |-> r.value])
                /\ section_index' = NextToSummarize(text, sections, section_index + 1)
                /\ pc' = IF section_index' <= Len(priority_sections) THEN "sections"
                         ELSE "overview"
                /\ error' = error
        /\ UNCHANGED <<harness_vars, raw_text, summary_max_words, effective_max, text,
                       sections, overview, key_findings, draft, expanded, summary>>

\* line 124, _generate_overview
GenerateOverview(outcome) ==
    LET r == generate_overview(outcome)
    IN  /\ pc = "overview"
        /\ calls' = Append(calls,
                Call("overview", "",
                     overview_target(effective_max, section_summaries # <<>>),
                     OverviewContext(text, section_summaries), outcome))
        /\ IF r.raised
           THEN pc' = "failed" /\ error' = r.value /\ overview' = overview
           ELSE pc' = "findings" /\ error' = error /\ overview' = r.value
        /\ UNCHANGED <<harness_vars, raw_text, summary_max_words, effective_max, text,
                       sections, section_index, section_summaries, key_findings,
                       draft, expanded, summary>>

\* line 127, _extract_key_findings, then _compile_full_summary up to the
\* expansion call (lines 414-442) or, without one, to the return (line 150)
ExtractKeyFindings(outcome) ==
    LET r    == extract_key_findings(outcome)
        full == full_draft(overview, section_summaries, r.value)
    IN  /\ pc = "findings"
        /\ calls' = Append(calls,
                Call("findings", "", 0, FindingsContext(text, section_summaries),
                     outcome))
        /\ IF r.raised
           THEN /\ pc' = "failed"
                /\ error' = r.value
                /\ UNCHANGED <<key_findings, draft, summary>>
           ELSE /\ key_findings' = r.value
                /\ draft' = full
                /\ error' = error
                /\ IF ExpansionNeeded(full, effective_max)
                   THEN pc' = "expand" /\ summary' = summary
                   ELSE /\ pc' = "done"
                        /\ summary' = MakeSummary(overview, r.value, section_summaries,
                                                  EnforceCap(full, effective_max))
        /\ UNCHANGED <<harness_vars, raw_text, summary_max_words, effective_max, text,
                       sections, section_index, section_summaries, overview, expanded>>

\* lines 442-449, _expand_summary, and the return (lines 138-150)
ExpandSummary(outcome) ==
    LET r    == expand_summary(draft, outcome)
        full == IF r.value # <<>> THEN r.value ELSE draft
    IN  /\ pc = "expand"
        /\ calls' = Append(calls,
                Call("expand", "", expansion_target(effective_max), draft, outcome))
        /\ IF r.raised
           THEN pc' = "failed" /\ error' = r.value /\ UNCHANGED <<expanded, summary>>
           ELSE /\ pc' = "done"
                /\ error' = error
                /\ expanded' = r.value
                /\ summary' = MakeSummary(overview, key_findings, section_summaries,
                                          EnforceCap(full, effective_max))
        /\ UNCHANGED <<harness_vars, raw_text, summary_max_words, effective_max, text,
                       sections, section_index, section_summaries, overview,
                       key_findings, draft>>

Next ==
    \/ Start
    \/ \E outcome \in SectionOutcomes : SummarizeSection(outcome)
    \/ \E outcome \in OverviewOutcomes : GenerateOverview(outcome)
    \/ \E outcome \in FindingsOutcomes : ExtractKeyFindings(outcome)
    \/ \E outcome \in ExpansionOutcomes : ExpandSummary(outcome)

Spec == Init /\ [][Next]_vars

-----------------------------------------------------------------------------
(* Two summarize() runs whose generation calls interleave.  The locals of   *)
(* a run are one record; the only state outside the runs that summarize()  *)
(* touches is settings.summary_max_words, read at line 109.                *)

\* the locals of a run before its first statement
NewRun(raw, max_words) ==
    [pc |-> "start", raw_text |-> raw, summary_max_words |-> max_words,
     effective_max |-> 0, text |-> <<>>, sections |-> <<>>, section_index |-> 0,
     section_summaries |-> <<>>, overview |-> <<>>, key_findings |-> <<>>,
     draft |-> <<>>, expanded |-> NotCalled, summary |-> NoSummary,
     error |-> NoError, calls |-> <<>>]

\* the mutation: a run stores its target in the shared setting
SettingAfterStart_stored(setting, run) == run.effective_max

\* settings.summary_max_words after a run has passed line 109: it is only read
SettingAfterStart(setting, run) == setting

\* lines 109-121 and 163-181 on the locals of a run, as in Start
RunStart(run, setting) ==
    LET eff   == IF run.summary_max_words # 0 THEN run.summary_max_words
                 ELSE setting
        txt   == clean_text(run.raw_text)
        secs  == detect_sections(txt)
        index == NextToSummarize(txt, secs, 1)
    IN  [run EXCEPT !.effective_max = eff, !.text = txt, !.sections = secs,
                    !.section_index = index,
                    !.pc = IF index <= Len(priority_sections) THEN "sections"
                           ELSE "overview"]

\* the code of a run from the return of one generation call to the next
\* call or to the end, as in SummarizeSection, GenerateOverview,
\* ExtractKeyFindings and ExpandSummary
RunStep(run, outcome) ==
    IF run.pc = "sections" THEN
        LET name  == priority_sections[run.section_index]
            r     == summarize_chunk(outcome)
            index == NextToSummarize(run.text, run.sections, run.section_index + 1)
            call  == Call("section", name,
                          per_section_words(run.effective_max,
                                            PresentCount(run.sections)),
                          extract_section(run.text, name), outcome)
        IN  IF r.raised
            THEN [run EXCEPT !.calls = Append(@, call), !.pc = "failed",
                             !.error = r.value]
            ELSE [run EXCEPT !.calls = Append(@, call),
                             !.section_summaries =
                                 Append(@, [name |-> name, summary |-> r.value]),
                             !.section_index = index,
                             !.pc = IF index <= Len(priority_sections)
                                    THEN "sections" ELSE "overview"]
    ELSE IF run.pc = "overview" THEN
        LET r    == generate_overview(outcome)
            call == Call("overview", "",
                         overview_target(run.effective_max,
                                         run.section_summaries # <<>>),
                         OverviewContext(run.text, run.section_summaries), outcome)
        IN  IF r.raised
            THEN [run EXCEPT !.calls = Append(@, call), !.pc = "failed",
                             !.error = r.value]
            ELSE [run EXCEPT !.calls = Append(@, call), !.pc = "findings",
                             !.overview = r.value]
    ELSE IF run.pc = "findings" THEN
        LET r    == extract_key_findings(outcome)
            full == full_draft(run.overview, run.section_summaries, r.value)
            call == Call("findings", "", 0,
                         FindingsContext(run.text, run.section_summaries), outcome)
        IN  IF r.raised
            THEN [run EXCEPT !.calls = Append(@, call), !.pc = "failed",
                             !.error = r.value]
            ELSE IF ExpansionNeeded(full, run.effective_max)
            THEN [run EXCEPT !.calls = Append(@, call), !.pc = "expand",
                             !.key_findings = r.value, !.draft = full]
            ELSE [run EXCEPT !.calls = Append(@, call), !.pc = "done",
                             !.key_findings = r.value, !.draft = full,
                             !.summary =
                                 MakeSummary(run.overview, r.value,
                                             run.section_summaries,
                                             EnforceCap(full, run.effective_max))]
    ELSE \* run.pc = "expand"
        LET r    == expand_summary(run.draft, outcome)
            full == IF r.value # <<>> THEN r.value ELSE run.draft
            call == Call("expand", "", expansion_target(run.effective_max),
                         run.draft, outcome)
        IN  IF r.raised
            THEN [run EXCEPT !.calls = Append(@, call), !.pc = "failed",
                             !.error = r.value]
            ELSE [run EXCEPT !.calls = Append(@, call), !.pc = "done",
                             !.expanded = r.value,
                             !.summary =
                                 MakeSummary(run.overview, run.key_findings,
                                             run.section_summaries,
                                             EnforceCap(full, run.effective_max))]

\* arg[r] is what run r was called with; res.runs[r] is its locals and
\* res.setting is settings.summary_max_words.  The runs are interchangeable:
\* run 1 is the one with the shorter document.
InitPair ==
    LET \* the documents with text, up to three sections long
        PairDocuments == {d \in Documents : Len(d) \in 1..(3 * SectionMinChars)}
        \* summary_max_words: None and a number
        PairTargets   == {t \in TargetSamples : t = 0 \/ t = 150}
    IN  /\ arg \in [1..2 -> [raw_text : PairDocuments,
                             summary_max_words : PairTargets]]
        /\ Len(arg[1].raw_text) < Len(arg[2].raw_text)
        /\ res = [runs    |-> [r \in 1..2 |->
                                  NewRun(arg[r].raw_text, arg[r].summary_max_words)],
                  setting |-> settings_summary_max_words]
        /\ stage = "pair"
        /\ RunIdle

\* run r executes up to its first generation call
PairStart(r) ==
    /\ stage = "pair"
    /\ res.runs[r].pc = "start"
    /\ \E started \in {RunStart(res.runs[r], res.setting)} :
           res' = [runs    |-> [res.runs EXCEPT ![r] = started],
                   setting |-> SettingAfterStart(res.setting, started)]
    /\ UNCHANGED <<arg, stage, run_vars>>

\* a generation call of run r returns and the run goes on to its next one
PairStep(r, outcome) ==
    /\ stage = "pair"
    /\ res.runs[r].pc \in {"sections", "overview", "findings", "expand"}
    /\ res' = [res EXCEPT !.runs[r] = RunStep(@, outcome)]
    /\ UNCHANGED <<arg, stage, run_vars>>

\* a generation call of either run is answered with a text or fails
NextPair ==
    \/ \E r \in 1..2 : PairStart(r)
    \/ \E r \in 1..2, outcome \in {Responded(MidText), Failed(E_Quota)} :
           PairStep(r, outcome)

SpecPair == InitPair /\ [][NextPair]_vars

\* the generation outcome logged in a call
OutcomeOf(call) == [ok |-> call.ok, text |-> call.response, err |-> call.err]

RECURSIVE Replay(_, _)
\* the run after the generation outcomes logged in `log`, in order
Replay(run, log) ==
    IF log = <<>> THEN run
    ELSE Replay(RunStep(run, OutcomeOf(Head(log))), Tail(log))

\* run r executed on its own, against the setting as it was at first, and
\* given the generation outcomes that run r has received so far
Alone(r) ==
    LET run == NewRun(arg[r].raw_text, arg[r].summary_max_words)
    IN  IF res.runs[r].pc = "start" THEN run
        ELSE Replay(RunStart(run, settings_summary_max_words), res.runs[r].calls)

-----------------------------------------------------------------------------
(* Claims about summarize().                                               *)

LastCall == calls[Len(calls)]

\* s.endswith(sub)
EndsWith(s, sub) == OccursAt(s, sub, Len(s) - Len(sub) + 1)

\* the index of the first occurrence of sub in s at or after from, or 0
IndexFrom(s, sub, from) ==
    LET c == {i \in from..(Len(s) - Len(sub) + 1) : OccursAt(s, sub, i)}
    IN  IF c = {} THEN 0 ELSE Min(c)

\* the strings of hs occur in s one after another, in this order
RECURSIVE OccurInOrderFrom(_, _, _)
OccurInOrderFrom(s, hs, from) ==
    IF hs = <<>> THEN TRUE
    ELSE LET i == IndexFrom(s, hs[1], from)
         IN  i # 0 /\ OccurInOrderFrom(s, Tail(hs), i + Len(hs[1]))

OccurInOrder(s, hs) == OccurInOrderFrom(s, hs, 1)

\* C2: every returned Summary has word_count <= the total target.
C2_WordCountWithinTarget == pc = "done" => summary.word_count <= effective_max

\* the text has the abstract, introduction, methods, results and conclusion
\* sections, each longer than 100 characters, and every generation call so
\* far succeeded
AllFiveSectionsAndNoFailure ==
    /\ \A i \in DOMAIN calls : calls[i].ok
    /\ \A n \in {"abstract", "introduction", "methods", "results", "conclusion"} :
          /\ n \in SectionNames(sections)
          /\ Len(Strip(SubSeq(text, SpanOf(sections, n)[1] + 1,
                              SpanOf(sections, n)[2]))) > 100

HasRateLimitMarker(e) ==
    \/ \E i \in 1..(Len(e) - 2) : e[i] = "4" /\ e[i + 1] = "2" /\ e[i + 2] = "9"
    \/ \E i \in 1..(Len(e) - 4) :
          \A j \in 1..5 : LowerChar(e[i + j - 1]) = S_quota[j]

\* the generic failure of the phase a call belongs to
GenericPrefix(kind) ==
    CASE kind = "section"  -> S_SectionErrorPrefix
      [] kind = "overview" -> S_OverviewErrorPrefix
      [] kind = "findings" -> S_FindingsErrorPrefix

\* C4: a failed call of section summarization, overview synthesis or
\* key-finding extraction whose error text has '429' or 'quota' (any case) in
\* it surfaces as the rate-limit error, which is told apart from the generic
\* failure of the phase; a failure without the marker surfaces as the generic
\* failure, never as the rate-limit error.
C4_RateLimitSurfaced ==
    pc = "failed" =>
        /\ StartsWith(error, S_RateLimitPrefix) = HasRateLimitMarker(LastCall.err)
        /\ StartsWith(error, GenericPrefix(LastCall.kind))
              = ~HasRateLimitMarker(LastCall.err)
        /\ EndsWith(error, LastCall.err)

\* C4's case: key-finding extraction failed with a quota message spelled
\* with a capital letter, and the run ended with the rate-limit error
C4_Witness ==
    /\ pc = "failed"
    /\ LastCall.kind = "findings"
    /\ LastCall.err = E_Quota
    /\ StartsWith(error, S_RateLimitPrefix)

\* C5: a failed generation call of section summarization, overview synthesis
\* or key-finding extraction aborts the run: the error leaves summarize(), no
\* Summary is returned, and the failed call is the last call of the run.
C5_FailureAborts ==
    \A i \in DOMAIN calls :
        ~calls[i].ok /\ calls[i].kind # "expand" =>
            /\ pc = "failed"
            /\ i = Len(calls)
            /\ summary = NoSummary
            /\ error # NoError
            /\ EndsWith(error, calls[i].err)

\* C5's case: the overview call failed after two section summaries were made
C5_Witness ==
    /\ pc = "failed"
    /\ Len(calls) = 3
    /\ Len(section_summaries) = 2
    /\ LastCall.kind = "overview"
    /\ ~LastCall.ok

\* C6: when the expansion call fails, summarize still returns a Summary, whose
\* full summary is the un-expanded draft truncated to the total target; the
\* failure is not propagated.
C6_ExpansionFailureKeepsDraft ==
    \A i \in DOMAIN calls :
        calls[i].kind = "expand" /\ ~calls[i].ok =>
            /\ pc = "done"
            /\ error = NoError
            /\ summary # NoSummary
            /\ summary.full_summary = truncate_to_words(draft, effective_max)

\* C6's case: the expansion call failed with a rate-limit error and the
\* returned full summary is the draft, cut
C6_Witness ==
    /\ pc = "done"
    /\ LastCall.kind = "expand"
    /\ LastCall.err = E_Http429
    /\ summary.full_summary # draft
    /\ EndsWith(summary.full_summary, Ellipsis)

\* the calls of one kind, in the order they were issued
CallsOfKind(kind) == SelectSeq(calls, LAMBDA c : c.kind = kind)

C15_NoSectionsDegrade ==
    pc # "start" /\ sections = <<>> =>
        /\ CallsOfKind("section") = <<>>
        /\ section_summaries = <<>>
        /\ \A c \in Range(CallsOfKind("overview")) : c.context = Excerpt(text, 2000)
        /\ pc = "failed" => ~LastCall.ok
        /\ pc = "done" =>
              /\ \A c \in Range(calls) : c.kind = "expand" \/ c.ok
              /\ summary # NoSummary
              /\ summary.overview =
                     generate_overview(
                         Responded(CallsOfKind("overview")[1].response)).value
              /\ summary.methodology = None /\ summary.results = None

\* C15's case: a Summary returned for the empty text
C15_Witness ==
    /\ pc = "done"
    /\ raw_text = <<>>
    /\ sections = <<>>
    /\ summary # NoSummary
    /\ CallsOfKind("overview")[1].context = <<>>
    /\ CallsOfKind("section") = <<>>

\* the position of a generation call in the order of the phases, and of a
\* section-summary call among the section-summary calls
PhaseRank(c) ==
    CASE c.kind = "section"  -> (CASE c.section = "methods"     -> 1
                                   [] c.section = "methodology" -> 2
                                   [] c.section = "results"     -> 3)
      [] c.kind = "overview" -> 4
      [] c.kind = "findings" -> 5
      [] c.kind = "expand"   -> 6

\* C16: the generation calls of a run are issued one after another in phase
\* order: the section-summary calls (methods before results), then the
\* overview call, then the key-finding call, then the expansion call if any;
\* a call is issued only after every earlier call has returned its output; a
\* run that returns a Summary has made exactly one overview call and exactly
\* one key-finding call.
C16_CallsInPhaseOrder ==
    /\ \A i, j \in DOMAIN calls : i < j => PhaseRank(calls[i]) < PhaseRank(calls[j])
    /\ \A i \in DOMAIN calls : i < Len(calls) => calls[i].ok
    /\ Len(CallsOfKind("section")) = Len(section_summaries)
           + (IF pc = "failed" /\ LastCall.kind = "section" THEN 1 ELSE 0)
    /\ CallsOfKind("findings") # <<>> => pc \in {"expand", "done", "failed"}
    /\ pc = "done" => /\ Len(CallsOfKind("overview")) = 1
                      /\ Len(CallsOfKind("findings")) = 1
                      /\ Len(CallsOfKind("expand")) <= 1

\* C16's case: a returned Summary after calls of all four kinds, two of them
\* section-summary calls
C16_Witness ==
    /\ pc = "done"
    /\ [i \in DOMAIN calls |-> calls[i].kind]
           = <<"section", "section", "overview", "findings", "expand">>
    /\ calls[1].section = "methods"
    /\ calls[2].section = "results"

\* C17: the expansion call is issued if and only if the word count of the
\* assembled draft is below 0.85 x totalTarget, and at most once per run, for
\* every totalTarget, those below 200 included.
C17_ExpansionIffBelowRatio ==
    LET below == count_words(draft) * 100 < 85 * effective_max
    IN  /\ pc = "expand" => below
        /\ CallsOfKind("expand") # <<>> => below
        /\ pc = "done" /\ CallsOfKind("expand") = <<>> => ~below
        /\ Len(CallsOfKind("expand")) <= 1

\* C18 as stated: the overview word target in the overview prompt is
\* max(400, 0.8 x totalTarget) when no sections were detected in the text and
\* max(200, 0.4 x totalTarget) otherwise, in particular when sections were
\* detected but none of them produced a section summary.
C18_TargetBySectionsDetected ==
    \A c \in Range(CallsOfKind("overview")) :
        c.target_words = IF sections = <<>>
                         THEN MaxOf(400, IntScale(effective_max, 8, 10))
                         ELSE MaxOf(200, IntScale(effective_max, 4, 10))

\* C18 as the code has it: the overview word target is
\* max(400, int(0.8 x totalTarget)) when no section summary was produced
\* (no section-summary call was made), whether or not sections were detected,
\* and max(200, int(0.4 x totalTarget)) when at least one was produced.
C18_TargetBySummariesProduced ==
    \A c \in Range(CallsOfKind("overview")) :
        c.target_words = IF CallsOfKind("section") = <<>>
                         THEN MaxOf(400, IntScale(effective_max, 8, 10))
                         ELSE MaxOf(200, IntScale(effective_max, 4, 10))

\* C18's case: an overview call for a text with detected sections none of
\* which was summarized, with the larger target
C18_Witness ==
    /\ CallsOfKind("overview") # <<>>
    /\ sections # <<>>
    /\ CallsOfKind("section") = <<>>
    /\ effective_max = settings_summary_max_words
    /\ CallsOfKind("overview")[1].target_words = 640

\* the extracted text of a detected section, and its length
SectionText(name) ==
    Strip(SubSeq(text, SpanOf(sections, name)[1] + 1, SpanOf(sections, name)[2]))

SectionChars(name) == Len(SectionText(name))

\* the names of the priority list that are keys of the detected mapping and
\* whose extracted text is longer than 100 characters
LongPrioritySections ==
    SelectSeq(<<"methods", "methodology", "results">>,
              LAMBDA n : n \in SectionNames(sections) /\ SectionChars(n) > 100)

\* C19: section summarization issues one generation call for exactly the
\* names of the priority list [methods, methodology, results] that are keys of
\* the detected mapping and whose extracted text is longer than 100
\* characters; a present section of 100 characters or fewer gets no call and
\* no entry in the section summaries, and raises no error.
C19_CallsForLongPrioritySections ==
    LET called    == [i \in DOMAIN CallsOfKind("section") |->
                         CallsOfKind("section")[i].section]
        summarized == [i \in DOMAIN section_summaries |-> section_summaries[i].name]
    IN  /\ Len(called) <= Len(LongPrioritySections)
        /\ called = SubSeq(LongPrioritySections, 1, Len(called))
        /\ summarized = SubSeq(LongPrioritySections, 1, Len(summarized))
        /\ \A c \in Range(CallsOfKind("section")) :
              c.context = SectionText(c.section)
        /\ pc \in {"overview", "findings", "expand", "done"} =>
              called = LongPrioritySections /\ summarized = LongPrioritySections
        /\ pc = "failed" => ~LastCall.ok

\* C19's case: the section phase is over for a text whose methods section has
\* exactly 100 characters and whose results section has 101; only results was
\* summarized
C19_Witness ==
    /\ pc = "overview"
    /\ "methods" \in SectionNames(sections)
    /\ SectionChars("methods") = 100
    /\ SectionChars("results") = 101
    /\ Len(CallsOfKind("section")) = 1
    /\ calls[1].section = "results"
    /\ ~HasKey(section_summaries, "methods")

\* the key-finding context built from the section summaries: those of
\* results, discussion and conclusion that exist, in that order, each after
\* a blank line; if none of the three exists, all the section summaries,
\* blank lines between them; <<>> when there is no section summary
ContextFromSummaries ==
    LET named == SelectSeq(<<"results", "discussion", "conclusion">>,
                           LAMBDA n : HasKey(section_summaries, n))
    IN  IF named # <<>>
        THEN JoinWith([i \in DOMAIN named |->
                          <<"\n", "\n">> \o Get(section_summaries, named[i])], <<>>)
        ELSE JoinWith([i \in DOMAIN section_summaries |->
                          section_summaries[i].summary], <<"\n", "\n">>)

\* C20 as stated: the context of the key-finding prompt is the concatenation,
\* in the order results, discussion, conclusion, of the section summaries that
\* exist; if none of the three exists, all existing section summaries; if
\* there is no section summary, the first 3000 characters of the normalized
\* text (the whole text when shorter).
C20_ContextIsFirst3000 ==
    \A c \in Range(CallsOfKind("findings")) :
        c.context = IF section_summaries # <<>> THEN ContextFromSummaries
                    ELSE SubSeq(text, 1, Min({3000, Len(text)}))

\* C20 as the code has it: as stated, except that the first 3000 characters
\* of a longer normalized text are followed by "...".
C20_ContextIsMarkedExcerpt ==
    \A c \in Range(CallsOfKind("findings")) :
        c.context = IF section_summaries # <<>> THEN ContextFromSummaries
                    ELSE IF Len(text) > 3000 THEN SubSeq(text, 1, 3000) \o Ellipsis
                    ELSE text

\* C20's case: a key-finding call for a text of more than 3000 characters
\* without section summaries
C20_Witness ==
    /\ CallsOfKind("findings") # <<>>
    /\ section_summaries = <<>>
    /\ Len(text) > 3000
    /\ Len(CallsOfKind("findings")[1].context) = 3003
    /\ EndsWith(CallsOfKind("findings")[1].context, Ellipsis)

\* the compiled text before the word cap: the expansion output when the
\* expansion ran, the draft otherwise
Uncapped == IF expanded = NotCalled THEN draft ELSE expanded

C25_FirstNonDescendantCloses ==
    stage = "numbered" =>
        LET es == numbered_entries(arg)
        IN  \A i \in DOMAIN es :
                LET closers == {j \in (i + 1)..Len(es) :
                                   /\ ~StartsWith(es[j].label, es[i].label \o <<".">>)
                                   /\ es[j].depth <= es[i].depth}
                IN  NumberedSpanOf(res, es[i].label).end =
                        IF closers = {} THEN Len(arg) ELSE es[Min(closers)].start

C29_CallCounts ==
    /\ pc = "done" =>
          /\ Len(calls) >= 2 /\ Len(calls) <= 5
          /\ Len(CallsOfKind("section")) <= 2
          /\ Len(CallsOfKind("overview")) = 1
          /\ Len(CallsOfKind("findings")) = 1
          /\ Len(CallsOfKind("expand")) <= 1
          /\ Len(calls) = Len(CallsOfKind("section")) + 2 + Len(CallsOfKind("expand"))
    /\ pc = "failed" => Len(calls) >= 1 /\ Len(calls) <= 4

\* C29's case: a run that aborted at its fourth call, the key-finding call
\* after two section-summary calls and the overview call
C29_Witness ==
    /\ pc = "failed"
    /\ Len(calls) = 4
    /\ Len(CallsOfKind("section")) = 2
    /\ LastCall.kind = "findings"
    /\ ~LastCall.ok

\* a call that returned an empty or whitespace-only response
EmptyResponse(c) == c.ok /\ Strip(c.response) = <<>>

\* C30: an empty or whitespace-only generation response is not a failure: in
\* section summarization and overview synthesis the fixed placeholder takes
\* its place, in expansion the current draft is kept; in every returned
\* Summary the overview and every section summary are non-empty, while
\* key_findings may be the empty list.
C30_EmptyResponseIsNotFailure ==
    /\ pc = "failed" => ~LastCall.ok
    /\ \A c \in Range(calls) :
          EmptyResponse(c) =>
              /\ c.kind = "section" =>
                    Get(section_summaries, c.section) = S_SummaryFailed
              /\ c.kind = "overview" => overview = S_OverviewFailed
              /\ c.kind = "findings" /\ pc \in {"expand", "done"} => key_findings = <<>>
              /\ c.kind = "expand" =>
                    /\ pc = "done"
                    /\ expanded = draft
                    /\ summary.full_summary = truncate_to_words(draft, effective_max)
    /\ \A i \in DOMAIN section_summaries : section_summaries[i].summary # <<>>
    /\ pc = "done" =>
          /\ summary.overview # <<>>
          /\ summary.methodology # <<>>
          /\ summary.results # <<>>

\* C30's case: a Summary returned after empty responses in all four phases
C30_Witness ==
    /\ pc = "done"
    /\ Len(calls) >= 4
    /\ \A c \in Range(calls) : EmptyResponse(c)
    /\ summary.overview = S_OverviewFailed
    /\ summary.methodology = S_SummaryFailed
    /\ summary.key_findings = <<>>
    /\ CallsOfKind("expand") # <<>>

-----------------------------------------------------------------------------
(* The session's summary cache of the web UI, streamlit_app.py.  arg is    *)
(* the session's history, one event per request or clearing; res.cache is  *)
(* st.session_state['summary_cache'] and res.made counts the Summary       *)
(* objects the pipeline has returned.                                      *)

\* the requests of a session
MaxRequests == 2

RECURSIVE Decimal(_)
\* str(n) of the f-string, for n >= 0
Decimal(n) ==
    LET digit(d) == <<"0", "1", "2", "3", "4", "5", "6", "7", "8", "9">>[d + 1]
    IN  IF n < 10 THEN <<digit(n)>>
        ELSE Decimal(n \div 10) \o <<digit(n % 10)>>

\* hashlib.sha256(content).hexdigest(), lines 87 and 328: distinct digests
\* for distinct contents, shortened to two characters
compute_file_hash(content) ==
    IF content = <<"A">> THEN <<"3", "f">> ELSE <<"a", "0">>

\* the mutation: the title is left out of the key
CacheKey_no_title(prefix, hash, title, words) ==
    prefix \o hash \o <<"_">> \o Decimal(words)

\* the f-strings of lines 254 and 329
CacheKey(prefix, hash, title, words) ==
    prefix \o hash \o <<"_">> \o title \o <<"_">> \o Decimal(words)

\* The body shared by the two request functions, lines 257-317 and 332-371:
\* a stored entry is returned without running the pipeline; otherwise the
\* pipeline runs and either returns a new Summary, which is stored, or
\* raises, and nothing is stored.
Serve(kind, prefix, content, title, max_words, pipeline_ok) ==
    LET hash    == compute_file_hash(content)
        words   == IF max_words # 0 THEN max_words ELSE settings_summary_max_words
        key     == CacheKey(prefix, hash, title, words)
        entries == {e \in res.cache : e.key = key}
        event   == [op |-> "request", kind |-> kind, hash |-> hash, title |-> title,
                    words |-> words, ran |-> entries = {}, ok |-> TRUE,
                    summary |-> 0]
    IN  /\ Len(SelectSeq(arg, LAMBDA e : e.op = "request")) < MaxRequests
        /\ IF entries # {}
           THEN /\ arg' = Append(arg, [event EXCEPT
                                          !.summary = (CHOOSE e \in entries : TRUE).summary])
                /\ res' = res
           ELSE IF pipeline_ok
           THEN /\ arg' = Append(arg, [event EXCEPT !.summary = res.made + 1])
                /\ res' = [cache |-> res.cache \cup
                                         {[key |-> key, summary |-> res.made + 1]},
                           made  |-> res.made + 1]
           ELSE /\ arg' = Append(arg, [event EXCEPT !.ok = FALSE])
                /\ res' = res
        /\ UNCHANGED <<stage, run_vars>>

InitCache ==
    /\ arg = <<>>
    /\ res = [cache |-> {}, made |-> 0]
    /\ stage = "session"
    /\ RunIdle

\* lines 246-321; the key holds `title or uploaded_file.name`
process_uploaded_file(name, content, title, max_words, pipeline_ok) ==
    /\ stage = "session"
    /\ Serve("file", <<>>, content, IF title # <<>> THEN title ELSE name,
             max_words, pipeline_ok)

\* lines 324-371
process_text_input(content, title, max_words, pipeline_ok) ==
    /\ stage = "session"
    /\ Serve("text", <<"t", "e", "x", "t", "_">>, content, title, max_words,
             pipeline_ok)

\* the Clear Cache button, lines 460-466: shown while the cache has entries
ClearCache ==
    /\ stage = "session"
    /\ res.cache # {}
    /\ res' = [res EXCEPT !.cache = {}]
    /\ arg' = Append(arg, [op |-> "clear", kind |-> "", hash |-> <<>>,
                           title |-> <<>>, words |-> 0, ran |-> FALSE,
                           ok |-> TRUE, summary |-> 0])
    /\ UNCHANGED <<stage, run_vars>>

NextCache ==
    LET Contents == {<<"A">>, <<"B">>}
        FileName == <<"p", ".", "t", "x", "t">>
        Titles   == {FileName, <<"p", "_", "5">>}
        Words    == {0, settings_summary_max_words, 5}
    IN  \/ \E content \in Contents, title \in Titles \cup {<<>>}, max_words \in Words,
              pipeline_ok \in BOOLEAN :
                process_uploaded_file(FileName, content, title, max_words, pipeline_ok)
        \/ \E content \in Contents, title \in Titles, max_words \in Words,
              pipeline_ok \in BOOLEAN :
                process_text_input(content, title, max_words, pipeline_ok)
        \/ ClearCache

SpecCache == InitCache /\ [][NextCache]_vars

\* the earlier requests of the session that returned a Summary for the
\* content hash, title and word cap of request i (and, with same_kind, through
\* the same kind of input), with no clearing of the cache in between
StoredFor(i, same_kind) ==
    {j \in 1..(i - 1) :
        /\ arg[j].op = "request" /\ arg[j].ok
        /\ arg[j].hash = arg[i].hash
        /\ arg[j].title = arg[i].title
        /\ arg[j].words = arg[i].words
        /\ same_kind => arg[j].kind = arg[i].kind
        /\ \A k \in (j + 1)..(i - 1) : arg[k].op # "clear"}

\* request i returned the Summary stored by the requests in `earlier` without
\* running the pipeline or, when there is none, ran the pipeline
ServedFrom(i, earlier) ==
    IF earlier # {}
    THEN /\ ~arg[i].ran
         /\ arg[i].ok
         /\ \A j \in earlier : arg[i].summary = arg[j].summary
    ELSE arg[i].ran

====
